---- MODULE Spec2Model ----
(***************************************************************************)
(* The order and product routers of the bakery backend                     *)
(* (app/routers/orders.py, app/routers/products.py) as a state machine     *)
(* over the graph store they read and write.  Every db.run(...) call is    *)
(* one atomic step of the store; a handler that makes one store call is    *)
(* one action, update_product (three store calls) is three.  A handler's   *)
(* response is delivered before the next store call is taken: delivery     *)
(* changes nothing in the store, so no interleaving of store calls is      *)
(* lost by it.                                                             *)
(***************************************************************************)
EXTENDS Integers, Sequences, FiniteSets, TLC

(* ------------------------------------------------------------------ *)
(* Bounds of the model                                                 *)
(* ------------------------------------------------------------------ *)

\* datetime() values handed out by the store: 0 .. MaxTime - 1.  A statement
\* that sets a timestamp needs one; update_product is admitted only while
\* one is left for its write.
MaxTime == 3

(* ------------------------------------------------------------------ *)
(* Values                                                              *)
(* ------------------------------------------------------------------ *)

\* Python's Optional[T]: None, or a value
None == {}
Some(v) == {v}
Get(o) == CHOOSE v \in o : TRUE

\* str(x)
Str(x) == <<"str", x>>

\* elementId(n) of the node with internal id n
ElementId(n) == <<"4:db", n>>

\* strings are sequences of characters
Pie == <<"p", "i", "e">>
Oat == <<"o", "a", "t">>
Bun == <<"b", "u", "n">>

\* Cypher's  s CONTAINS sub  on two strings
CONTAINS(s, sub) ==
    \E i \in 0..(Len(s) - Len(sub)) : SubSeq(s, i + 1, i + Len(sub)) = sub

(* ------------------------------------------------------------------ *)
(* Users and the auth resolver                                         *)
(* ------------------------------------------------------------------ *)

Users == {"b1", "b2", "c1", "a1"}

UserRole(u) ==
    CASE u \in {"b1", "b2"} -> "baker"
      [] u = "c1" -> "customer"
      [] OTHER -> "admin"

UserName(u) == <<"name of", u>>

\* get_current_user_token: the user record of the bearer token's owner
current_user(u) == [email |-> u, role |-> UserRole(u)]

(* ------------------------------------------------------------------ *)
(* State                                                               *)
(* ------------------------------------------------------------------ *)

VARIABLES
    products,     \* Product nodes: internal id -> property map
    orders,       \* Order nodes: internal id -> property map
    BAKES,        \* (:User)-[:BAKES]->(:Product) as <<email, product>>
    PLACED,       \* (:User)-[:PLACED]->(:Order) as <<email, order>>
    FOR_PRODUCT,  \* (:Order)-[:FOR_PRODUCT]->(:Product) as <<order, product>>
    now,          \* the next value of datetime()
    inflight,     \* update_product requests between two store calls
    response      \* the HTTP exchange just completed, until it is delivered

store == <<products, orders, BAKES, PLACED, FOR_PRODUCT, now>>
vars == <<products, orders, BAKES, PLACED, FOR_PRODUCT, now, inflight, response>>

\* a node property: None when the property is not set
Prop(node, k) == IF k \in DOMAIN node THEN Some(node[k]) ELSE None

\* the internal id the store gives the next node it creates
NewId == Cardinality(DOMAIN products) + Cardinality(DOMAIN orders) + 1

\* ORDER BY created_at DESC over the nodes S of the map nodes
RECURSIVE OrderByCreatedAtDesc(_, _)
OrderByCreatedAtDesc(S, nodes) ==
    IF S = {} THEN <<>>
    ELSE LET n == CHOOSE m \in S :
                     \A k \in S : nodes[k].created_at <= nodes[m].created_at
         IN  <<n>> \o OrderByCreatedAtDesc(S \ {n}, nodes)

(* ------------------------------------------------------------------ *)
(* Requests, responses, exceptions                                     *)
(* ------------------------------------------------------------------ *)

HTTPException(status_code, detail) ==
    [status_code |-> status_code, detail |-> detail]

\* the statement the store refuses to parse
CypherSyntaxError == [code |-> "Neo.ClientError.Statement.SyntaxError"]

\* record[...] on the None that result.single() gave
TypeError == [code |-> "TypeError: 'NoneType' object is not subscriptable"]

\* except Exception as e: raise HTTPException(status_code=500, detail=str(e))
except_Exception(e) == HTTPException(500, Str(e))

NoParams == [none |-> TRUE]

NoResponse == [op |-> "none"]

\* no response is waiting to be delivered
Idle == response = NoResponse

\* the exchange: the request (endpoint, caller, path and query parameters)
\* and what the handler answered; matched: the nodes a delete_product
\* statement matched, as they were before it
Exchange(op, u, params, status_code, body) ==
    [op |-> op, caller |-> u, params |-> params,
     status_code |-> status_code, body |-> body, matched |-> {}]

\* the handler returned body
Returned(op, u, params, body) == Exchange(op, u, params, 200, body)

\* e was raised inside the handler's try block
Raised(op, u, params, e) ==
    LET h == except_Exception(e)
    IN  Exchange(op, u, params, h.status_code, [detail |-> h.detail])

\* the response leaves the server
deliver ==
    /\ ~Idle
    /\ response' = NoResponse
    /\ UNCHANGED <<store, inflight>>

Init ==
    /\ products = <<>>
    /\ orders = <<>>
    /\ BAKES = {}
    /\ PLACED = {}
    /\ FOR_PRODUCT = {}
    /\ now = 0
    /\ inflight = {}
    /\ response = NoResponse

\* the update_product requests that passed the check and have yet to write
PendingWrites == {r \in inflight : r.pc = "write"}

\* a datetime() value is left that no admitted update_product needs
TimeLeft == now + Cardinality(PendingWrites) < MaxTime

(* ------------------------------------------------------------------ *)
(* Product router                                                      *)
(* ------------------------------------------------------------------ *)

\* ProductCreate bodies offered to create_product
ProductCreate ==
    { [name |-> Pie, description |-> Some(Oat), price |-> 5, stock_quantity |-> 1],
      [name |-> Bun, description |-> None, price |-> 10, stock_quantity |-> 2] }

\* the fields of ProductUpdate, each Optional
ProductUpdateFields ==
    {"name", "description", "price", "stock_quantity", "is_available"}

NoUpdate == [k \in ProductUpdateFields |-> None]

\* ProductUpdate bodies offered to update_product
ProductUpdate ==
    { NoUpdate,
      [NoUpdate EXCEPT !.name = Some(Bun), !.description = Some(Pie), !.price = Some(7)],
      [NoUpdate EXCEPT !.stock_quantity = Some(0), !.is_available = Some(FALSE)],
      [NoUpdate EXCEPT !.is_available = Some(TRUE)] }

\* the product ids a request may name: every product of the store, and one
\* id that names no node
IdInputs == {ElementId(n) : n \in DOMAIN products \cup {NewId}}

ProductResponse(id, p) ==
    [id |-> Str(id),
     name |-> p.name,
     description |-> Prop(p, "description"),
     price |-> p.price,
     stock_quantity |-> p.stock_quantity,
     is_available |-> p.is_available,
     created_at |-> Str(p.created_at)]

\* CREATE (p:Product {...}): a null property is not stored
NewProduct(product_data) ==
    [k \in {"name", "price", "stock_quantity", "is_available", "created_at"}
           \cup (IF product_data.description = None THEN {} ELSE {"description"}) |->
        CASE k = "is_available" -> TRUE
          [] k = "created_at" -> now
          [] k = "description" -> Get(product_data.description)
          [] OTHER -> product_data[k]]

create_product(u, product_data) ==
    /\ Idle
    /\ UNCHANGED <<orders, PLACED, FOR_PRODUCT, inflight>>
    /\ IF current_user(u).role # "baker"
       THEN /\ response' = Raised("create_product", u, NoParams,
                                  HTTPException(403, "Only bakers can create products"))
            /\ UNCHANGED <<products, BAKES, now>>
       ELSE /\ TimeLeft
            /\ LET id == NewId
                   p == NewProduct(product_data)
               IN  /\ products' = products @@ (id :> p)
                   /\ BAKES' = BAKES \cup {<<u, id>>}
                   /\ now' = now + 1
                   /\ response' = Returned("create_product", u, NoParams,
                                           ProductResponse(id, p))

\* Python's  if search:  on an Optional[str]
Truthy(search) == search # None /\ Get(search) # <<>>

\* the list  query  that get_products builds
get_products_query(search, min_price, max_price) ==
    <<"MATCH (p:Product) WHERE p.is_available = true">>
    \o (IF Truthy(search)
        THEN <<"(p.name CONTAINS $search OR p.description CONTAINS $search)">>
        ELSE <<>>)
    \o (IF min_price # None THEN <<"p.price >= $min_price">> ELSE <<>>)
    \o (IF max_price # None THEN <<"p.price <= $max_price">> ELSE <<>>)

\* the predicates joined with AND after WHERE: query[1:]
get_products_where(query) == Tail(query)

\* one predicate of the WHERE clause on the product node p; a predicate on
\* a property that is not set is null, which WHERE treats as not true
Predicate(cond, p, search, min_price, max_price) ==
    CASE cond = "MATCH (p:Product) WHERE p.is_available = true" ->
            p.is_available = TRUE
      [] cond = "(p.name CONTAINS $search OR p.description CONTAINS $search)" ->
            \/ CONTAINS(p.name, Get(search))
            \/ /\ "description" \in DOMAIN p
               /\ CONTAINS(p.description, Get(search))
      [] cond = "p.price >= $min_price" -> p.price >= Get(min_price)
      [] cond = "p.price <= $max_price" -> p.price <= Get(max_price)

\* WHERE with nothing after it does not parse
WhereParses(where) == where # <<>>

get_products(search, min_price, max_price) ==
    /\ Idle
    /\ UNCHANGED <<store, inflight>>
    /\ LET params == [search |-> search, min_price |-> min_price,
                      max_price |-> max_price]
           where == get_products_where(get_products_query(search, min_price, max_price))
           match == {p \in DOMAIN products :
                        \A i \in 1..Len(where) :
                            Predicate(where[i], products[p], search, min_price, max_price)}
           rows == OrderByCreatedAtDesc(match, products)
       IN  IF ~WhereParses(where)
           THEN response' = Raised("get_products", "public", params, CypherSyntaxError)
           ELSE response' = Returned("get_products", "public", params,
                    [i \in 1..Len(rows) |-> ProductResponse(rows[i], products[rows[i]])])

\* the ownership check with the BAKES pattern left out of the MATCH
update_product_owned_by_id(email, product_id) ==
    {p \in DOMAIN products : ElementId(p) = product_id}

\* MATCH (b:User {email: $email})-[:BAKES]->(p:Product)
\* WHERE elementId(p) = $product_id
update_product_owned(email, product_id) ==
    {p \in DOMAIN products : <<email, p>> \in BAKES /\ ElementId(p) = product_id}

\* Python's  not v  on a value of field k
Falsy(k, v) ==
    CASE k \in {"price", "stock_quantity"} -> v = 0
      [] k = "is_available" -> v = FALSE
      [] OTHER -> v = <<>>

\* the comprehension with  if v  in place of  if v is not None
updates_if_v(product_data) ==
    {k \in DOMAIN product_data :
        product_data[k] # None /\ ~Falsy(k, Get(product_data[k]))}

\* updates = {k: v for k, v in product_data.dict().items() if v is not None}
updates(product_data) ==
    {k \in DOMAIN product_data : product_data[k] # None}

\* set_clause: one assignment p.k = $k per key of updates
set_clause(product_data) == updates(product_data)

\* SET {set_clause}, p.updated_at = datetime(): an empty set_clause leaves
\* "SET , p.updated_at = ...", which does not parse
SetParses(clause) == clause # {}

\* the node p after  SET {set_clause}, p.updated_at = datetime()
update_product_set(p, product_data) ==
    LET keys == set_clause(product_data)
    IN  [k \in DOMAIN p \cup keys \cup {"updated_at"} |->
            IF k \in keys THEN Get(product_data[k])
            ELSE IF k = "updated_at" THEN now
            ELSE p[k]]

\* first store call of update_product: the ownership check
update_product_check(u, product_id, product_data) ==
    /\ Idle
    /\ UNCHANGED store
    /\ IF update_product_owned(current_user(u).email, product_id) = {}
       THEN /\ response' = Raised("update_product", u, [product_id |-> product_id],
                   HTTPException(404, "Product not found or not owned by baker"))
            /\ UNCHANGED inflight
       ELSE /\ TimeLeft
            /\ inflight' = inflight \cup
                   {[caller |-> u, product_id |-> product_id,
                     product_data |-> product_data, pc |-> "write"]}
            /\ UNCHANGED response

\* second store call of update_product: the write, matched by id alone
update_product_write(r) ==
    /\ Idle
    /\ r \in inflight
    /\ r.pc = "write"
    /\ UNCHANGED <<orders, BAKES, PLACED, FOR_PRODUCT>>
    /\ IF ~SetParses(set_clause(r.product_data))
       THEN /\ response' = Raised("update_product", r.caller,
                                  [product_id |-> r.product_id], CypherSyntaxError)
            /\ inflight' = inflight \ {r}
            /\ UNCHANGED <<products, now>>
       ELSE /\ now < MaxTime
            /\ LET match == {p \in DOMAIN products : ElementId(p) = r.product_id}
               IN  /\ products' = [p \in DOMAIN products |->
                          IF p \in match
                          THEN update_product_set(products[p], r.product_data)
                          ELSE products[p]]
                   /\ now' = IF match = {} THEN now ELSE now + 1
            /\ inflight' = (inflight \ {r}) \cup
                   {[caller |-> r.caller, product_id |-> r.product_id, pc |-> "reread"]}
            /\ UNCHANGED response

\* third store call of update_product: the re-read, and the response
update_product_reread(r) ==
    /\ Idle
    /\ r \in inflight
    /\ r.pc = "reread"
    /\ UNCHANGED store
    /\ inflight' = inflight \ {r}
    /\ LET match == {p \in DOMAIN products : ElementId(p) = r.product_id}
       IN  IF match = {}
           THEN response' = Raised("update_product", r.caller,
                                   [product_id |-> r.product_id], TypeError)
           ELSE LET p == CHOOSE p \in match : TRUE
                IN  response' = Returned("update_product", r.caller,
                                         [product_id |-> r.product_id],
                                         ProductResponse(p, products[p]))

\* MATCH (b:User {email: $email})-[:BAKES]->(p:Product)
\* WHERE elementId(p) = $product_id
delete_product_match(email, product_id) ==
    {p \in DOMAIN products : <<email, p>> \in BAKES /\ ElementId(p) = product_id}

\* the SET clause with  p.is_available = NOT p.is_available
delete_product_toggle(p) ==
    [k \in DOMAIN p \cup {"updated_at"} |->
        CASE k = "is_available" -> ~p.is_available
          [] k = "updated_at" -> now
          [] OTHER -> p[k]]

\* the node p after  SET p.is_available = false, p.updated_at = datetime()
delete_product_set(p) ==
    [k \in DOMAIN p \cup {"updated_at"} |->
        CASE k = "is_available" -> FALSE
          [] k = "updated_at" -> now
          [] OTHER -> p[k]]

delete_product(u, product_id) ==
    LET match == delete_product_match(current_user(u).email, product_id)
    IN  /\ Idle
        /\ match # {} => TimeLeft
        /\ products' = [p \in DOMAIN products |->
               IF p \in match THEN delete_product_set(products[p]) ELSE products[p]]
        /\ now' = IF match = {} THEN now ELSE now + 1
        /\ response' = [Returned("delete_product", u, [product_id |-> product_id],
                                 [message |-> "Product marked as unavailable"])
                            EXCEPT !.matched = {products[p] : p \in match}]
        /\ UNCHANGED <<orders, BAKES, PLACED, FOR_PRODUCT, inflight>>

(* ------------------------------------------------------------------ *)
(* Order router                                                        *)
(* ------------------------------------------------------------------ *)

\* OrderCreate bodies offered to create_order
OrderCreate == {[product_id |-> id, quantity |-> 2] : id \in IdInputs}

OrderResponse(id, status, quantity, created_at, product_name, customer_name, baker_name) ==
    [id |-> Str(id), status |-> status, quantity |-> quantity,
     created_at |-> Str(created_at), product_name |-> product_name,
     customer_name |-> customer_name, baker_name |-> baker_name]

\* the MATCH with  AND p.is_available = true  left out
create_order_match_any(email, product_id) ==
    {p \in DOMAIN products : ElementId(p) = product_id}

\* MATCH (c:User {email: $email}), (p:Product)
\* WHERE elementId(p) = $product_id AND p.is_available = true
create_order_match(email, product_id) ==
    {p \in DOMAIN products :
        ElementId(p) = product_id /\ products[p].is_available = TRUE}

create_order(u, order_data) ==
    /\ Idle
    /\ UNCHANGED <<products, BAKES, inflight>>
    /\ LET params == [product_id |-> order_data.product_id]
           match == create_order_match(current_user(u).email, order_data.product_id)
       IN  IF current_user(u).role # "customer"
           THEN /\ response' = Raised("create_order", u, params,
                       HTTPException(403, "Only customers can create orders"))
                /\ UNCHANGED <<orders, PLACED, FOR_PRODUCT, now>>
           ELSE IF match = {}
           THEN /\ response' = Raised("create_order", u, params,
                       HTTPException(400, "Failed to create order"))
                /\ UNCHANGED <<orders, PLACED, FOR_PRODUCT, now>>
           ELSE /\ TimeLeft
                /\ LET p == CHOOSE p \in match : TRUE
                       id == NewId
                       o == [quantity |-> order_data.quantity,
                             status |-> "pending", created_at |-> now]
                   IN  /\ orders' = orders @@ (id :> o)
                       /\ PLACED' = PLACED \cup {<<u, id>>}
                       /\ FOR_PRODUCT' = FOR_PRODUCT \cup {<<id, p>>}
                       /\ now' = now + 1
                       /\ response' = Returned("create_order", u, params,
                              OrderResponse(id, o.status, o.quantity, o.created_at,
                                            None, None, None))

\* OPTIONAL MATCH (c:User)-[:PLACED]->(o): the customer, or null
placed_by(o) ==
    LET cs == {c \in Users : <<c, o>> \in PLACED}
    IN  IF cs = {} THEN None ELSE Some(CHOOSE c \in cs : TRUE)

\* the product an order row is joined with
for_product(o) == CHOOSE p \in DOMAIN products : <<o, p>> \in FOR_PRODUCT

OptName(c) == IF c = None THEN None ELSE Some(UserName(Get(c)))

\* the MATCH with the baker not bound to the caller's email
get_baker_orders_rows_any(email) ==
    {o \in DOMAIN orders :
        \E p \in DOMAIN products, b \in Users :
            <<b, p>> \in BAKES /\ <<o, p>> \in FOR_PRODUCT}

\* MATCH (b:User {email: $email})-[:BAKES]->(p:Product)<-[:FOR_PRODUCT]-(o:Order)
get_baker_orders_rows(email) ==
    {o \in DOMAIN orders :
        \E p \in DOMAIN products : <<email, p>> \in BAKES /\ <<o, p>> \in FOR_PRODUCT}

get_baker_orders(u) ==
    /\ Idle
    /\ UNCHANGED <<store, inflight>>
    /\ IF current_user(u).role # "baker"
       THEN response' = Raised("get_baker_orders", u, NoParams,
                               HTTPException(403, "Access denied: Not a baker"))
       ELSE LET rows == OrderByCreatedAtDesc(get_baker_orders_rows(current_user(u).email),
                                             orders)
            IN  response' = Returned("get_baker_orders", u, NoParams,
                    [i \in 1..Len(rows) |->
                        LET o == orders[rows[i]]
                        IN  OrderResponse(rows[i], o.status, o.quantity, o.created_at,
                                Some(products[for_product(rows[i])].name),
                                OptName(placed_by(rows[i])), None)])

(* ------------------------------------------------------------------ *)
(* The system                                                          *)
(* ------------------------------------------------------------------ *)

\* the query parameters offered to get_products
Searches == {None, Some(<<>>), Some(Oat)}
MinPrices == {None, Some(6)}
MaxPrices == {None, Some(6)}

Next ==
    \/ \E u \in Users, d \in ProductCreate : create_product(u, d)
    \/ \E s \in Searches, lo \in MinPrices, hi \in MaxPrices : get_products(s, lo, hi)
    \/ \E u \in Users, id \in IdInputs, d \in ProductUpdate : update_product_check(u, id, d)
    \/ \E r \in inflight : update_product_write(r)
    \/ \E r \in inflight : update_product_reread(r)
    \/ \E u \in Users, id \in IdInputs : delete_product(u, id)
    \/ \E u \in Users, d \in OrderCreate : create_order(u, d)
    \/ \E u \in Users : get_baker_orders(u)
    \/ deliver

Spec == Init /\ [][Next]_vars

(* ------------------------------------------------------------------ *)
(* Properties                                                          *)
(* ------------------------------------------------------------------ *)

\* u has the BAKES relationship to the product named product_id
Owns(u, product_id) ==
    \E p \in DOMAIN products : <<u, p>> \in BAKES /\ ElementId(p) = product_id

\* the ids of the records of a list response
BodyIds(body) == {body[i].id : i \in DOMAIN body}

\* C1: a create_order request of a caller whose role is not customer is
\* answered with status 403 and leaves the store as it was.
C1_NonCustomerGets403 ==
    [][\A u \in Users, d \in OrderCreate :
          (create_order(u, d) /\ UserRole(u) # "customer")
              => (response'.status_code = 403 /\ UNCHANGED store)]_vars

\* C2: a list returned by get_products holds no product whose is_available
\* is false, whatever search, min_price and max_price are.
C2_ListsOnlyAvailable ==
    (response.op = "get_products" /\ response.status_code = 200)
        => \A i \in DOMAIN response.body : response.body[i].is_available = TRUE

\* C3: across update_product by the owning baker, the write assigns every
\* supplied non-null field its supplied value and leaves every omitted or
\* null field (and created_at) as it was; only updated_at may change besides;
\* no other product changes, and the check and the re-read change nothing.
C3_UpdateAppliesExactlySupplied ==
    [][/\ \A r \in inflight :
             (update_product_write(r) /\ Owns(r.caller, r.product_id)) =>
                 /\ DOMAIN products' = DOMAIN products
                 /\ \A p \in DOMAIN products :
                       IF ElementId(p) = r.product_id
                       THEN /\ \A k \in ProductUpdateFields :
                                  Prop(products'[p], k) =
                                      IF r.product_data[k] # None
                                      THEN r.product_data[k]
                                      ELSE Prop(products[p], k)
                            /\ DOMAIN products'[p] \subseteq
                                   ProductUpdateFields \cup {"created_at", "updated_at"}
                            /\ products'[p].created_at = products[p].created_at
                       ELSE products'[p] = products[p]
       /\ store' # store =>
             /\ ~\E u \in Users, id \in IdInputs, d \in ProductUpdate :
                    update_product_check(u, id, d)
             /\ ~\E r \in inflight : update_product_reread(r)]_vars

\* C3 witness: the owner's update {name, description, price} has written:
\* price is the supplied 7, stock_quantity is still the 1 it was created with.
C3_Witness ==
    \E r \in inflight :
        /\ r.pc = "reread"
        /\ \E p \in DOMAIN products :
              /\ ElementId(p) = r.product_id
              /\ <<r.caller, p>> \in BAKES
              /\ Prop(products[p], "updated_at") = Some(now - 1)
              /\ products[p].price = 7
              /\ products[p].name = Bun
              /\ products[p].stock_quantity = 1
              /\ products[p].is_available = TRUE

\* C4: update_product for a product id the caller does not own (missing, or
\* baked by another user) is answered with status 404 and leaves the store
\* as it was.
C4_NotOwnedGets404 ==
    [][\A u \in Users, id \in IdInputs, d \in ProductUpdate :
          (update_product_check(u, id, d) /\ ~Owns(u, id))
              => (response'.status_code = 404 /\ UNCHANGED store)]_vars

\* C5: every order get_baker_orders returns to a baker B is FOR_PRODUCT a
\* product that B BAKES; an order whose product is baked only by others
\* is not in B's result.
C5_BakerSeesOnlyOwnOrders ==
    (response.op = "get_baker_orders" /\ response.status_code = 200) =>
        /\ \A i \in DOMAIN response.body :
              \E o \in DOMAIN orders :
                  /\ Str(o) = response.body[i].id
                  /\ \E p \in DOMAIN products :
                        <<o, p>> \in FOR_PRODUCT /\ <<response.caller, p>> \in BAKES
        /\ \A o \in DOMAIN orders :
              (\A p \in DOMAIN products :
                  <<o, p>> \in FOR_PRODUCT => <<response.caller, p>> \notin BAKES)
                  => Str(o) \notin BodyIds(response.body)

\* C5 witness: baker B is handed a non-empty list of orders while another
\* baker has a product of their own.
C5_Witness ==
    /\ response.op = "get_baker_orders"
    /\ response.status_code = 200
    /\ Len(response.body) >= 1
    /\ \E b \in Users, p \in DOMAIN products :
          b # response.caller /\ <<b, p>> \in BAKES

\* C6: every step that creates an Order creates exactly one, with one PLACED
\* and one FOR_PRODUCT relationship, for a product that exists and has
\* is_available = true at that step; a step that creates no Order creates no
\* PLACED and no FOR_PRODUCT relationship.
C6_OrderOnlyWhileAvailable ==
    [][LET created == DOMAIN orders' \ DOMAIN orders
       IN  /\ \A o \in created :
                 \E p \in DOMAIN products, c \in Users :
                     /\ products[p].is_available = TRUE
                     /\ created = {o}
                     /\ FOR_PRODUCT' = FOR_PRODUCT \cup {<<o, p>>}
                     /\ PLACED' = PLACED \cup {<<c, o>>}
           /\ created = {} => (PLACED' = PLACED /\ FOR_PRODUCT' = FOR_PRODUCT)]_vars

\* C6 witness: a product was ordered while available, was made unavailable
\* afterwards, and a customer's create_order against it is now refused.
C6_Witness ==
    /\ response.op = "create_order"
    /\ UserRole(response.caller) = "customer"
    /\ response.status_code # 200
    /\ \E p \in DOMAIN products, o \in DOMAIN orders :
          /\ ElementId(p) = response.params.product_id
          /\ <<o, p>> \in FOR_PRODUCT
          /\ products[p].is_available = FALSE
          /\ Cardinality(DOMAIN orders) = 1

\* C7: delete_product by the owner of the product answers 200 with the
\* success message, whatever the product's is_available was (a first call
\* or a repeated one); afterwards is_available is false and every property
\* other than is_available and updated_at is as before; no other product
\* changes.
C7_DeleteIdempotent ==
    [][\A u \in Users, id \in IdInputs :
          (delete_product(u, id) /\ Owns(u, id)) =>
              /\ response'.status_code = 200
              /\ response'.body = [message |-> "Product marked as unavailable"]
              /\ DOMAIN products' = DOMAIN products
              /\ \A p \in DOMAIN products :
                    IF ElementId(p) = id
                    THEN /\ products'[p].is_available = FALSE
                         /\ DOMAIN products'[p] = DOMAIN products[p] \cup {"updated_at"}
                         /\ \A k \in DOMAIN products[p] \ {"is_available", "updated_at"} :
                               products'[p][k] = products[p][k]
                    ELSE products'[p] = products[p]]_vars

\* C7 witness: the second of two delete_product calls in a row has answered:
\* the product it matched was already unavailable, last written at the
\* timestamp just before by a statement that left name, price and
\* stock_quantity as created (the first delete_product), and is still
\* unavailable.
C7_Witness ==
    /\ response.op = "delete_product"
    /\ response.status_code = 200
    /\ Owns(response.caller, response.params.product_id)
    /\ \E b \in response.matched :
          /\ b.is_available = FALSE
          /\ Prop(b, "updated_at") = Some(now - 2)
          /\ \E d \in ProductCreate :
                b.name = d.name /\ b.price = d.price
                    /\ b.stock_quantity = d.stock_quantity
    /\ \A p \in DOMAIN products :
          ElementId(p) = response.params.product_id
              => (products[p].is_available = FALSE
                  /\ Prop(products[p], "updated_at") = Some(now - 1))

\* C8: get_products with none of search, min_price, max_price answers 200
\* with exactly the products whose is_available is true.
C8_UnfilteredListSucceeds ==
    (/\ response.op = "get_products"
     /\ response.params.search = None
     /\ response.params.min_price = None
     /\ response.params.max_price = None) =>
        /\ response.status_code = 200
        /\ BodyIds(response.body) =
               {Str(p) : p \in {q \in DOMAIN products : products[q].is_available = TRUE}}

\* C9: the write of the owner's update_product whose fields are all omitted
\* or null raises no error: it sets updated_at, assigns no other property,
\* and the request goes on to its re-read.
C9_EmptyUpdateSucceeds ==
    [][\A r \in inflight :
          (/\ update_product_write(r)
           /\ Owns(r.caller, r.product_id)
           /\ \A k \in ProductUpdateFields : r.product_data[k] = None) =>
              /\ ~(response'.op = "update_product" /\ response'.status_code # 200)
              /\ \E r2 \in inflight' :
                    r2.caller = r.caller /\ r2.product_id = r.product_id
                        /\ r2.pc = "reread"
              /\ \A p \in DOMAIN products :
                    ElementId(p) = r.product_id =>
                        /\ Prop(products'[p], "updated_at") = Some(now)
                        /\ \A k \in DOMAIN products[p] \ {"updated_at"} :
                              products'[p][k] = products[p][k]]_vars

\* the step is a store call of a request whose caller is u
RequestOf(u) ==
    \/ \E d \in ProductCreate : create_product(u, d)
    \/ \E id \in IdInputs, d \in ProductUpdate : update_product_check(u, id, d)
    \/ \E r \in inflight : r.caller = u /\ update_product_write(r)
    \/ \E r \in inflight : r.caller = u /\ update_product_reread(r)
    \/ \E id \in IdInputs : delete_product(u, id)
    \/ \E d \in OrderCreate : create_order(u, d)
    \/ get_baker_orders(u)

\* C10: a step changes the properties of a product only if it is a store
\* call of a request whose caller has the BAKES relationship to that
\* product (the write of update_product included, which matches by id
\* alone); a product comes into being only with BAKES from the caller that
\* created it; BAKES of an existing product never changes.
C10_OnlyOwnerChangesProduct ==
    [][/\ \A p \in DOMAIN products :
             /\ p \in DOMAIN products'
             /\ products'[p] # products[p] =>
                    \E u \in Users : <<u, p>> \in BAKES /\ RequestOf(u)
             /\ \A u \in Users : (<<u, p>> \in BAKES') = (<<u, p>> \in BAKES)
       /\ \A p \in DOMAIN products' \ DOMAIN products :
             \E u \in Users :
                 /\ RequestOf(u)
                 /\ \A v \in Users : (<<v, p>> \in BAKES') = (v = u)]_vars

\* C10 witness: baker B's update_product has passed its ownership check and
\* has not written yet; in that gap another user's delete_product naming
\* the same product was answered, and the product is still available.
C10_Witness ==
    \E r \in inflight :
        /\ r.pc = "write"
        /\ Owns(r.caller, r.product_id)
        /\ response.op = "delete_product"
        /\ response.caller # r.caller
        /\ response.params.product_id = r.product_id
        /\ \A p \in DOMAIN products :
              ElementId(p) = r.product_id =>
                  (products[p].is_available = TRUE /\ "updated_at" \notin DOMAIN products[p])

====
